---- MODULE Spec2Model ----
(***************************************************************************)
(* Video steganography pipeline (encode.py, decode.py, aes_utils.py,       *)
(* md5_utils.py).                                                          *)
(*                                                                         *)
(* Text (Python str) and byte strings (Python bytes) are sequences of      *)
(* integers: a str is the sequence of its code points, a bytes object the  *)
(* sequence of its bytes (0..255).  Python's None is the value None, a     *)
(* one-element sequence that is no text.                                   *)
(*                                                                         *)
(* encode.py and decode.py import the helper modules as aes_utils and      *)
(* md5_utils and call them as AES_Utils and MD5_Utils; the model resolves  *)
(* those names to the functions of aes_utils.py and md5_utils.py.          *)
(***************************************************************************)
EXTENDS Integers, Sequences, FiniteSets, TLC

VARIABLES
    \* --- split/join of a string (SpecSplit)
    s_str, count, split_list, joined, spc,
    \* --- parse_frames_spec on a spec string (SpecParse)
    spec_in, parse_res, ppc,
    \* --- frame, encrypt, split, join, decrypt, deframe of a message (SpecCodec)
    message, frag_count, framed, envelope, fragments, received, rejoined,
    decrypted, deframed, cpc,
    \* --- the encoder run (Spec): encode.py main and encode_string
    e_pc,               \* where the run is
    TEXT_TO_ENCODE1,    \* the text typed
    TEXT_TO_ENCODE,     \* Original_Checksum + TEXT_TO_ENCODE1
    input_string,       \* the encrypted, base64 text
    split_string_list,  \* its fragments
    FRAMES,             \* the frame numbers typed
    frame_choice,       \* 1: hide FRAMES in the still image
    embedded,           \* passes of the embedding loop that ran to their end
    mux_ok,             \* whether tmp/audio.mp3 and tmp/video.mov were made
    e_error,            \* the exception that ended the run
    e_extfail,          \* the first external call of the run that failed
    e_success,          \* the success message was printed
    \* --- the files
    tmp,                \* the directory of extracted frames
    still_image,        \* image-enc.png
    video,              \* video.mov
    tampered,           \* a hidden text of video.mov was changed
    \* --- the decoder run (Spec): decode.py main
    d_pc, choice, d_frames,
    d_chunks,           \* <<n>> once the reveal step ran: n texts were revealed
    raw_joined, plaintext, d_result, d_output, d_error,
    d_extfail,          \* the first external call of the run that failed
    decrypt_log         \* what decrypt_AES_256 was invoked for, in order

splitVars == <<s_str, count, split_list, joined, spc>>
parseVars == <<spec_in, parse_res, ppc>>
codecVars == <<message, frag_count, framed, envelope, fragments, received, rejoined,
               decrypted, deframed, cpc>>
encVars == <<e_pc, TEXT_TO_ENCODE1, TEXT_TO_ENCODE, input_string, split_string_list,
             FRAMES, frame_choice, embedded, mux_ok, e_error, e_extfail, e_success>>
carrierVars == <<tmp, still_image, video, tampered>>
decVars == <<d_pc, choice, d_frames, d_chunks, raw_joined, plaintext, d_result,
             d_output, d_error, d_extfail, decrypt_log>>
pipeVars == <<encVars, carrierVars, decVars>>
vars == <<splitVars, parseVars, codecVars, pipeVars>>

None == <<-1>>

(***************************************************************************)
(* Bounds of the model.                                                    *)
(***************************************************************************)
MaxStrLen == 4      \* longest string handed to split_string in SpecSplit
MaxCount == 5       \* largest fragment count handed to split_string
MaxSpecLen == 4     \* longest frame spec handed to parse_frames_spec in SpecParse
MaxMsgLen == 2      \* longest message of SpecCodec
MaxFragCount == 3   \* largest explicit fragment count of SpecCodec

(***************************************************************************)
(* Generic helpers on sequences.                                           *)
(***************************************************************************)
RECURSIVE SeqsUpTo(_, _)
SeqsUpTo(S, n) ==
    IF n = 0 THEN {<<>>}
    ELSE LET shorter == SeqsUpTo(S, n - 1)
         IN shorter \cup {Append(q, x) : q \in {r \in shorter : Len(r) = n - 1}, x \in S}

\* "".join(chunks), by halves
RECURSIVE Concat(_)
Concat(chunks) ==
    IF chunks = <<>> THEN <<>>
    ELSE IF Len(chunks) = 1 THEN chunks[1]
    ELSE LET h == Len(chunks) \div 2
         IN Concat(SubSeq(chunks, 1, h)) \o Concat(SubSeq(chunks, h + 1, Len(chunks)))

\* math.ceil(a / b) for a >= 0, b >= 1
CeilDiv(a, b) == (a + b - 1) \div b

(***************************************************************************)
(* encode.py: split_string                                                 *)
(***************************************************************************)
\* the for loop of split_string from character i on, followed by the trailing
\* "if c_cout != 0" append
RECURSIVE split_loop(_, _, _, _, _, _)
split_loop(s, per_c, i, c_cout, out_str, acc) ==
    IF i > Len(s)
    THEN IF c_cout # 0 THEN Append(acc, out_str) ELSE acc
    ELSE IF c_cout + 1 = per_c
         THEN split_loop(s, per_c, i + 1, 0, <<>>, Append(acc, Append(out_str, s[i])))
         ELSE split_loop(s, per_c, i + 1, c_cout + 1, Append(out_str, s[i]), acc)

\* mutant: the trailing partial fragment is not appended
RECURSIVE split_loop_drop(_, _, _, _, _, _)
split_loop_drop(s, per_c, i, c_cout, out_str, acc) ==
    IF i > Len(s)
    THEN acc
    ELSE IF c_cout + 1 = per_c
         THEN split_loop_drop(s, per_c, i + 1, 0, <<>>, Append(acc, Append(out_str, s[i])))
         ELSE split_loop_drop(s, per_c, i + 1, c_cout + 1, Append(out_str, s[i]), acc)

split_string_drop(s, cnt) == split_loop_drop(s, CeilDiv(Len(s), cnt), 1, 0, <<>>, <<>>)

\* mutant: per_c rounded down instead of up
split_string_floor(s, cnt) == split_loop(s, Len(s) \div cnt, 1, 0, <<>>, <<>>)

split_string(s, cnt) == split_loop(s, CeilDiv(Len(s), cnt), 1, 0, <<>>, <<>>)

(***************************************************************************)
(* decode.py: reveal_chunks_from_frames, the join of the revealed texts.   *)
(* msgs is the sequence of reveal results in the order of extraction; a    *)
(* None or empty result is skipped.                                        *)
(***************************************************************************)
\* the loop of reveal_chunks_from_frames: "if msg: chunks.append(msg)"
keep_chunks(msgs) == SelectSeq(msgs, LAMBDA m : m # None /\ m # <<>>)

join_chunks(msgs) == Concat(keep_chunks(msgs))

(***************************************************************************)
(* decode.py: parse_frames_spec                                            *)
(***************************************************************************)
\* str.isspace for the ASCII white space characters
IsSpace(c) == c \in {9, 10, 11, 12, 13, 32}

IsDigit(c) == c \in 48..57

\* str.strip()
RECURSIVE lstrip(_)
lstrip(t) == IF t # <<>> /\ IsSpace(Head(t)) THEN lstrip(Tail(t)) ELSE t

RECURSIVE rstrip(_)
rstrip(t) ==
    IF t # <<>> /\ IsSpace(t[Len(t)]) THEN rstrip(SubSeq(t, 1, Len(t) - 1)) ELSE t

strip(t) == rstrip(lstrip(t))

\* the positions of character c in t, ascending
positions(t, c) == SelectSeq([i \in 1..Len(t) |-> i], LAMBDA i : t[i] = c)

\* position of the first occurrence of character c in t, 0 when there is none
find(t, c) == IF positions(t, c) = <<>> THEN 0 ELSE positions(t, c)[1]

\* str.split(sep) for a one-character separator: the pieces between the
\* occurrences of sep
str_split(t, sep) ==
    LET at == positions(t, sep)
        from(k) == IF k = 1 THEN 1 ELSE at[k - 1] + 1
        to(k) == IF k = Len(at) + 1 THEN Len(t) ELSE at[k] - 1
    IN [k \in 1..(Len(at) + 1) |-> SubSeq(t, from(k), to(k))]

\* value of a string of decimal digits
RECURSIVE digits_value(_, _)
digits_value(t, acc) ==
    IF t = <<>> THEN acc ELSE digits_value(Tail(t), 10 * acc + (Head(t) - 48))

\* int(t) of Python for text made of white space, signs and decimal digits:
\* surrounding white space is dropped, one leading sign is accepted, and the
\* rest must be a non-empty run of digits; anything else raises ValueError
py_int(t) ==
    LET u == strip(t)
        signed == u # <<>> /\ Head(u) \in {43, 45}
        d == IF signed THEN Tail(u) ELSE u
    IN IF d # <<>> /\ \A i \in 1..Len(d) : IsDigit(d[i])
       THEN [ok |-> TRUE,
             val |-> IF signed /\ Head(u) = 45 THEN 0 - digits_value(d, 0)
                     ELSE digits_value(d, 0)]
       ELSE [ok |-> FALSE, val |-> 0]

\* sorted(frames)
SortedSeq(S) ==
    IF S = {} THEN <<>>
    ELSE LET lo == CHOOSE x \in S : \A y \in S : x <= y
             hi == CHOOSE x \in S : \A y \in S : y <= x
         IN SelectSeq([i \in 1..(hi - lo + 1) |-> lo + i - 1], LAMBDA x : x \in S)

\* the body of the for loop for one part: the integers it adds to frames, or
\* a ValueError
parse_part(raw) ==
    LET part == strip(raw)
        k == find(part, 45)
    IN IF part = <<>> THEN [ok |-> TRUE, add |-> {}]
       ELSE IF k # 0
       THEN LET a == py_int(SubSeq(part, 1, k - 1))
                b == py_int(SubSeq(part, k + 1, Len(part)))
            IN IF ~a.ok \/ ~b.ok THEN [ok |-> FALSE, add |-> {}]
               ELSE IF a.val <= b.val THEN [ok |-> TRUE, add |-> a.val..b.val]
               ELSE [ok |-> TRUE, add |-> b.val..a.val]
       ELSE LET v == py_int(part)
            IN IF v.ok THEN [ok |-> TRUE, add |-> {v.val}]
               ELSE [ok |-> FALSE, add |-> {}]

\* the result of parse_frames_spec: the sorted list, or ok = FALSE when an
\* int() conversion raised ValueError
parse_frames_spec(spec) ==
    LET parts == str_split(strip(spec), 44)
        res == [i \in 1..Len(parts) |-> parse_part(parts[i])]
    IN IF \E i \in 1..Len(parts) : ~res[i].ok
       THEN [ok |-> FALSE, frames |-> <<>>]
       ELSE [ok |-> TRUE,
             frames |-> SortedSeq(UNION {res[i].add : i \in 1..Len(parts)})]

(***************************************************************************)
(* str.encode("utf-8") and bytes.decode("utf-8", errors="replace")         *)
(***************************************************************************)
utf8_char(cp) ==
    IF cp < 128 THEN <<cp>>
    ELSE IF cp < 2048 THEN <<192 + (cp \div 64), 128 + (cp % 64)>>
    ELSE IF cp < 65536
    THEN <<224 + (cp \div 4096), 128 + ((cp \div 64) % 64), 128 + (cp % 64)>>
    ELSE <<240 + (cp \div 262144), 128 + ((cp \div 4096) % 64),
           128 + ((cp \div 64) % 64), 128 + (cp % 64)>>

\* the encodings of the characters, concatenated (by halves)
RECURSIVE utf8_encode(_)
utf8_encode(text) ==
    IF text = <<>> THEN <<>>
    ELSE IF Len(text) = 1 THEN utf8_char(text[1])
    ELSE LET h == Len(text) \div 2
         IN utf8_encode(SubSeq(text, 1, h)) \o utf8_encode(SubSeq(text, h + 1, Len(text)))

\* U+FFFD, the character errors="replace" puts in place of an invalid sequence
Replacement == 65533

IsCont(b, i, lo, hi) == i <= Len(b) /\ b[i] >= lo /\ b[i] <= hi

\* the decoder from byte i on: a well-formed sequence gives its code point,
\* an ill-formed one gives one U+FFFD for its longest valid prefix
RECURSIVE utf8_decode_from(_, _)
utf8_decode_from(b, i) ==
    IF i > Len(b) THEN <<>>
    ELSE LET c == b[i]
             lo2 == IF c = 224 THEN 160 ELSE IF c = 240 THEN 144 ELSE 128
             hi2 == IF c = 237 THEN 159 ELSE IF c = 244 THEN 143 ELSE 191
         IN IF c < 128 THEN <<c>> \o utf8_decode_from(b, i + 1)
            ELSE IF c >= 194 /\ c <= 223
            THEN IF IsCont(b, i + 1, 128, 191)
                 THEN <<(c - 192) * 64 + (b[i + 1] - 128)>> \o utf8_decode_from(b, i + 2)
                 ELSE <<Replacement>> \o utf8_decode_from(b, i + 1)
            ELSE IF c >= 224 /\ c <= 239
            THEN IF ~IsCont(b, i + 1, lo2, hi2)
                 THEN <<Replacement>> \o utf8_decode_from(b, i + 1)
                 ELSE IF ~IsCont(b, i + 2, 128, 191)
                 THEN <<Replacement>> \o utf8_decode_from(b, i + 2)
                 ELSE <<(c - 224) * 4096 + (b[i + 1] - 128) * 64 + (b[i + 2] - 128)>>
                          \o utf8_decode_from(b, i + 3)
            ELSE IF c >= 240 /\ c <= 244
            THEN IF ~IsCont(b, i + 1, lo2, hi2)
                 THEN <<Replacement>> \o utf8_decode_from(b, i + 1)
                 ELSE IF ~IsCont(b, i + 2, 128, 191)
                 THEN <<Replacement>> \o utf8_decode_from(b, i + 2)
                 ELSE IF ~IsCont(b, i + 3, 128, 191)
                 THEN <<Replacement>> \o utf8_decode_from(b, i + 3)
                 ELSE <<(c - 240) * 262144 + (b[i + 1] - 128) * 4096
                            + (b[i + 2] - 128) * 64 + (b[i + 3] - 128)>>
                          \o utf8_decode_from(b, i + 4)
            ELSE <<Replacement>> \o utf8_decode_from(b, i + 1)

\* A byte outside 128..191 always starts a new sequence, so the input can be
\* cut in front of one and the two parts decoded on their own; a run without
\* such a byte is decoded from its first byte on.
IsUtf8Start(c) == c < 128 \/ c > 191

RECURSIVE utf8_decode_replace(_)
utf8_decode_replace(b) ==
    LET cuts == {p \in 2..Len(b) : IsUtf8Start(b[p])}
        mid == (Len(b) \div 2) + 1
        dist(p) == IF p >= mid THEN p - mid ELSE mid - p
        cut == CHOOSE p \in cuts : \A q \in cuts : dist(p) <= dist(q)
    IN IF Len(b) <= 4 \/ cuts = {} THEN utf8_decode_from(b, 1)
       ELSE utf8_decode_replace(SubSeq(b, 1, cut - 1))
                \o utf8_decode_replace(SubSeq(b, cut, Len(b)))

(***************************************************************************)
(* base64.b64encode and base64.b64decode                                   *)
(***************************************************************************)
\* the character of a 6-bit value in the base64 alphabet
B64Char(v) ==
    IF v < 26 THEN 65 + v
    ELSE IF v < 52 THEN 97 + (v - 26)
    ELSE IF v < 62 THEN 48 + (v - 52)
    ELSE IF v = 62 THEN 43 ELSE 47

\* the 6-bit value of a character, 64 for a character outside the alphabet
B64Val(c) ==
    IF c >= 65 /\ c <= 90 THEN c - 65
    ELSE IF c >= 97 /\ c <= 122 THEN c - 97 + 26
    ELSE IF c >= 48 /\ c <= 57 THEN c - 48 + 52
    ELSE IF c = 43 THEN 62
    ELSE IF c = 47 THEN 63 ELSE 64

B64Pad == 61

\* every three bytes give four characters; a last group of one or two bytes
\* is filled with zero bits and padded
b64encode(b) ==
    LET n == Len(b)
        at(i) == IF i <= n THEN b[i] ELSE 0
        char(p) ==
            LET g == 3 * ((p - 1) \div 4)
                r == (p - 1) % 4
            IN IF r = 0 THEN B64Char(at(g + 1) \div 4)
               ELSE IF r = 1 THEN B64Char((at(g + 1) % 4) * 16 + (at(g + 2) \div 16))
               ELSE IF r = 2
               THEN IF g + 2 > n THEN B64Pad
                    ELSE B64Char((at(g + 2) % 16) * 4 + (at(g + 3) \div 64))
               ELSE IF g + 3 > n THEN B64Pad ELSE B64Char(at(g + 3) % 64)
    IN [p \in 1..(4 * ((n + 2) \div 3)) |-> char(p)]

\* binascii.a2b_base64 without strict mode.  Characters that are neither in
\* the alphabet nor the pad are skipped.  The input ends at the first pad
\* that completes a quad: the first pad after three data characters of a
\* quad, or the second pad in a row after two.  A pad elsewhere is skipped.
\* Data that stops inside a quad without such a pad raises binascii.Error.
\* Every data character after the first of a quad completes one byte.
IsB64Text(c) == B64Val(c) # 64 \/ c = B64Pad

IsB64Data(c) == B64Val(c) # 64

a2b_base64(s) ==
    LET t == SelectSeq(s, IsB64Text)
        quad_pos(p) == Len(SelectSeq(SubSeq(t, 1, p - 1), IsB64Data)) % 4
        closes(p) == /\ t[p] = B64Pad
                     /\ \/ quad_pos(p) = 3
                        \/ quad_pos(p) = 2 /\ p > 1 /\ t[p - 1] = B64Pad
        ends == {p \in 1..Len(t) : closes(p)}
        stop == IF ends = {} THEN Len(t) + 1
                ELSE CHOOSE p \in ends : \A q \in ends : p <= q
        d == SelectSeq(SubSeq(t, 1, stop - 1), IsB64Data)
        n == Len(d)
        nbytes == 3 * (n \div 4) + (IF n % 4 = 0 THEN 0 ELSE (n % 4) - 1)
        byte(m) ==
            LET g == 4 * ((m - 1) \div 3)
                r == (m - 1) % 3
                hi == B64Val(d[g + r + 1])
                lo == B64Val(d[g + r + 2])
            IN IF r = 0 THEN hi * 4 + (lo \div 16)
               ELSE IF r = 1 THEN (hi % 16) * 16 + (lo \div 4)
               ELSE (hi % 4) * 64 + lo
    IN IF ends = {} /\ n % 4 # 0 THEN [ok |-> FALSE, bytes |-> <<>>]
       ELSE [ok |-> TRUE, bytes |-> [m \in 1..nbytes |-> byte(m)]]

\* base64.b64decode of a str: a character that is not ASCII raises ValueError
b64decode(s) ==
    IF \E i \in 1..Len(s) : s[i] >= 128 THEN [ok |-> FALSE, bytes |-> <<>>]
    ELSE a2b_base64(s)

(***************************************************************************)
(* md5_utils.py: md5_checksum.  hashlib.md5 is not computed in the model:  *)
(* its hexdigest is tabulated for the message texts of the model (pairs of *)
(* text and the 32 hexadecimal digits hashlib.md5 gives for its UTF-8      *)
(* bytes); for any other text the digest is a fixed 32-digit value that    *)
(* the text's bytes determine.                                             *)
(***************************************************************************)
DigestLen == 32

MD5Known == <<
    <<<<>>,
      <<100, 52, 49, 100, 56, 99, 100, 57, 56, 102, 48, 48, 98, 50, 48, 52, 101, 57, 56, 48, 48, 57, 57, 56, 101, 99, 102, 56, 52, 50, 55, 101>>>>,
    <<<<97>>,
      <<48, 99, 99, 49, 55, 53, 98, 57, 99, 48, 102, 49, 98, 54, 97, 56, 51, 49, 99, 51, 57, 57, 101, 50, 54, 57, 55, 55, 50, 54, 54, 49>>>>,
    <<<<233>>,
      <<54, 54, 100, 100, 99, 100, 57, 55, 99, 102, 100, 101, 97, 98, 98, 50, 102, 54, 102, 98, 56, 97, 57, 57, 57, 98, 52, 98, 99, 55, 54, 102>>>>,
    <<<<97, 97>>,
      <<52, 49, 50, 52, 98, 99, 48, 97, 57, 51, 51, 53, 99, 50, 55, 102, 48, 56, 54, 102, 50, 52, 98, 97, 50, 48, 55, 97, 52, 57, 49, 50>>>>,
    <<<<97, 233>>,
      <<49, 50, 56, 102, 100, 97, 53, 51, 99, 56, 99, 48, 55, 99, 56, 99, 54, 54, 102, 50, 97, 52, 56, 49, 50, 49, 56, 55, 100, 57, 50, 102>>>>,
    <<<<233, 97>>,
      <<49, 101, 49, 49, 99, 49, 54, 98, 100, 54, 99, 55, 55, 99, 52, 52, 52, 54, 54, 100, 57, 101, 97, 50, 50, 99, 51, 101, 54, 97, 99, 48>>>>,
    <<<<233, 233>>,
      <<48, 99, 54, 51, 97, 51, 52, 53, 50, 99, 52, 54, 53, 54, 57, 97, 55, 48, 99, 52, 102, 101, 100, 98, 102, 50, 97, 56, 52, 101, 56, 54>>>>,
    <<<<97, 97, 97>>,
      <<52, 55, 98, 99, 101, 53, 99, 55, 52, 102, 53, 56, 57, 102, 52, 56, 54, 55, 100, 98, 100, 53, 55, 101, 57, 99, 97, 57, 102, 56, 48, 56>>>>,
    <<<<97, 97, 233>>,
      <<54, 98, 48, 48, 100, 98, 57, 51, 101, 52, 49, 100, 57, 52, 98, 53, 53, 48, 49, 56, 55, 54, 54, 48, 102, 55, 101, 55, 99, 53, 52, 51>>>>,
    <<<<97, 233, 97>>,
      <<52, 57, 57, 101, 55, 101, 102, 53, 51, 54, 100, 99, 53, 51, 52, 100, 49, 101, 98, 98, 54, 48, 51, 55, 53, 53, 55, 51, 53, 99, 99, 98>>>>,
    <<<<97, 233, 233>>,
      <<52, 101, 98, 51, 101, 100, 56, 100, 53, 102, 56, 99, 49, 99, 99, 100, 49, 57, 97, 53, 99, 100, 48, 53, 98, 100, 51, 49, 51, 98, 50, 55>>>>,
    <<<<233, 97, 97>>,
      <<54, 97, 49, 48, 101, 99, 99, 51, 53, 50, 101, 48, 53, 53, 101, 54, 49, 50, 57, 98, 55, 98, 54, 102, 55, 50, 49, 57, 55, 53, 101, 97>>>>,
    <<<<233, 97, 233>>,
      <<100, 97, 50, 54, 97, 98, 99, 50, 56, 54, 55, 102, 102, 102, 53, 97, 97, 57, 53, 51, 98, 53, 48, 97, 49, 53, 57, 49, 101, 53, 55, 52>>>>,
    <<<<233, 233, 97>>,
      <<57, 55, 101, 99, 52, 101, 57, 97, 50, 48, 52, 55, 101, 53, 48, 99, 50, 52, 98, 99, 48, 102, 55, 53, 50, 50, 54, 55, 100, 100, 100, 102>>>>,
    <<<<233, 233, 233>>,
      <<101, 50, 52, 57, 102, 102, 101, 56, 101, 55, 97, 51, 53, 51, 50, 57, 57, 55, 97, 51, 49, 49, 51, 51, 54, 97, 51, 102, 49, 48, 49, 56>>>>
>>

HexDigit(v) == IF v < 10 THEN 48 + v ELSE 87 + v

RECURSIVE weighted_sum(_, _, _)
weighted_sum(u, i, j) ==
    IF j > Len(u) THEN 0 ELSE u[j] * (i + j) + weighted_sum(u, i, j + 1)

digest_other(u) ==
    [i \in 1..DigestLen |-> HexDigit((weighted_sum(u, i, 1) + 7 * i + Len(u)) % 16)]

md5_checksum(text) ==
    IF \E k \in 1..Len(MD5Known) : MD5Known[k][1] = text
    THEN MD5Known[CHOOSE k \in 1..Len(MD5Known) : MD5Known[k][1] = text][2]
    ELSE digest_other(utf8_encode(text))

(***************************************************************************)
(* decode.py: verify_md5_from_payload                                      *)
(***************************************************************************)
ChecksumLen == 32

\* mutant: the body starts one character early
verify_md5_from_payload_off(payload) ==
    IF Len(payload) < ChecksumLen THEN [verified |-> FALSE, body |-> payload]
    ELSE LET checksum == SubSeq(payload, 1, ChecksumLen)
             body == SubSeq(payload, ChecksumLen, Len(payload))
         IN [verified |-> md5_checksum(body) = checksum, body |-> body]

\* mutant: a mismatch hands back the whole payload
verify_md5_from_payload_whole(payload) ==
    IF Len(payload) < ChecksumLen THEN [verified |-> FALSE, body |-> payload]
    ELSE LET checksum == SubSeq(payload, 1, ChecksumLen)
             body == SubSeq(payload, ChecksumLen + 1, Len(payload))
         IN IF md5_checksum(body) = checksum
            THEN [verified |-> TRUE, body |-> body]
            ELSE [verified |-> FALSE, body |-> payload]

verify_md5_from_payload(payload) ==
    IF Len(payload) < ChecksumLen THEN [verified |-> FALSE, body |-> payload]
    ELSE LET checksum == SubSeq(payload, 1, ChecksumLen)
             body == SubSeq(payload, ChecksumLen + 1, Len(payload))
         IN IF md5_checksum(body) = checksum
            THEN [verified |-> TRUE, body |-> body]
            ELSE [verified |-> FALSE, body |-> body]

(***************************************************************************)
(* aes_utils.py.  AES-256-GCM encrypts in counter mode: the ciphertext is  *)
(* the plaintext XORed with a keystream that the key and the nonce fix.    *)
(* Both are constants of the code, so the keystream is one constant byte   *)
(* sequence: KeyStream holds its first bytes (the AES-256 encryptions of   *)
(* the counter blocks nonce||2, nonce||3, ... under the key of line 25).   *)
(***************************************************************************)
KeyStream == <<
    128, 242, 253, 238, 2, 65, 193, 225, 229, 18, 63, 132, 209, 21, 104, 92,
    30, 190, 22, 244, 127, 242, 189, 116, 9, 227, 72, 157, 225, 238, 164, 177,
    124, 179, 160, 32, 42, 180, 51, 34, 127, 4, 44, 109, 78, 152, 16, 185,
    141, 56, 154, 255, 36, 130, 207, 35, 87, 82, 16, 109, 126, 46, 115, 71,
    144, 138, 115, 127, 114, 252, 166, 223, 152, 107, 158, 51, 0, 231, 57, 249,
    208, 150, 16, 68, 52, 214, 214, 240, 179, 154, 78, 186, 70, 104, 179, 105,
    121, 29, 124, 174, 141, 145, 247, 163, 222, 6, 222, 129, 96, 18, 237, 155,
    43, 42, 160, 225, 111, 168, 181, 236, 56, 4, 98, 19, 55, 141, 149, 190,
    253, 110, 49, 163, 229, 38, 46, 137, 4, 122, 87, 217, 122, 190, 185, 128,
    194, 212, 107, 209, 15, 173, 206, 175, 203, 87, 28, 84, 61, 255, 49, 117,
    169, 22, 215, 218, 141, 141, 235, 253, 47, 198, 147, 169, 66, 16, 142, 58,
    1, 254, 242, 237, 190, 31, 227, 174, 215, 182, 195, 88, 233, 178, 8, 190,
    245, 196, 214, 47, 139, 224, 175, 48, 37, 109, 105, 197, 179, 125, 69, 236,
    138, 151, 28, 59, 243, 197, 171, 104, 235, 90, 60, 177, 86, 72, 228, 251,
    164, 7, 75, 117, 222, 25, 61, 31, 205, 42, 171, 230, 85, 224, 185, 9,
    50, 76, 189, 68, 102, 10, 93, 38, 81, 174, 121, 189, 210, 57, 178, 88
>>

\* bitwise exclusive or of two naturals
RECURSIVE Xor(_, _)
Xor(a, b) ==
    IF a = 0 THEN b
    ELSE IF b = 0 THEN a
    ELSE ((a + b) % 2) + 2 * Xor(a \div 2, b \div 2)

\* cipher.encrypt / cipher.decrypt of AES.MODE_GCM: the counter-mode XOR
ctr_xor(b) == [i \in 1..Len(b) |-> Xor(b[i], KeyStream[i])]

\* encrypt_AES_256: encrypt_and_digest returns (ciphertext, tag); the tag is
\* dropped and the ciphertext alone is base64-encoded
encrypt_AES_256(msg) == b64encode(ctr_xor(msg))

\* cipher.decrypt of what b64decode gave
cipher_decrypt(d) ==
    IF d.ok THEN [ok |-> TRUE, bytes |-> ctr_xor(d.bytes)]
    ELSE [ok |-> FALSE, bytes |-> <<>>]

\* decrypt_AES_256 of a str: b64decode, then cipher.decrypt (no tag is
\* verified); ok = FALSE when b64decode raised
decrypt_AES_256(ciphertxt_b64) == cipher_decrypt(b64decode(ciphertxt_b64))

\* decrypt_AES_256 of a bytes object: b64decode takes it without the ASCII test
decrypt_AES_256_bytes(cipher_bytes) == cipher_decrypt(a2b_base64(cipher_bytes))

(***************************************************************************)
(* decode.py: _decrypt_with_aes_utils_flex.  The direct call is tried      *)
(* first; when it raised, the text is base64-decoded and the bytes are     *)
(* handed to decrypt_AES_256 once more; ok = FALSE stands for RuntimeError.*)
(***************************************************************************)
flex_second(cipher_bytes) ==
    IF ~cipher_bytes.ok THEN [ok |-> FALSE, bytes |-> <<>>]
    ELSE decrypt_AES_256_bytes(cipher_bytes.bytes)

flex_first(first, cipher_b64) ==
    IF first.ok THEN first ELSE flex_second(b64decode(cipher_b64))

decrypt_with_aes_utils_flex(cipher_b64) ==
    flex_first(decrypt_AES_256(cipher_b64), cipher_b64)

(***************************************************************************)
(* str(FRAMES) of encode_string and ast.literal_eval of                    *)
(* derive_frames_from_still_image                                          *)
(***************************************************************************)
\* str(n) for an integer n
RECURSIVE nat_digits(_)
nat_digits(n) == IF n < 10 THEN <<48 + n>> ELSE Append(nat_digits(n \div 10), 48 + (n % 10))

py_str_int(n) == IF n < 0 THEN <<45>> \o nat_digits(0 - n) ELSE nat_digits(n)

\* sep.join(str(x) for x in indices)
RECURSIVE join_ints(_, _)
join_ints(indices, sep) ==
    IF indices = <<>> THEN <<>>
    ELSE IF Len(indices) = 1 THEN py_str_int(indices[1])
    ELSE LET h == Len(indices) \div 2
         IN join_ints(SubSeq(indices, 1, h), sep) \o sep
                \o join_ints(SubSeq(indices, h + 1, Len(indices)), sep)

\* str(FRAMES): "[1, 4, 6]"
py_str_list(indices) == <<91>> \o join_ints(indices, <<44, 32>>) \o <<93>>

\* ast.literal_eval followed by the isinstance tests, for text made of
\* brackets, commas, white space, signs and digits: ok when the text is a list
\* display of integers, val the list
literal_eval_int_list(text) ==
    LET t == strip(text)
        inner == SubSeq(t, 2, Len(t) - 1)
        parts == str_split(inner, 44)
        items == [i \in 1..Len(parts) |-> py_int(parts[i])]
    IN IF Len(t) < 2 \/ t[1] # 91 \/ t[Len(t)] # 93 THEN [ok |-> FALSE, val |-> <<>>]
       ELSE IF strip(inner) = <<>> THEN [ok |-> TRUE, val |-> <<>>]
       ELSE IF \E i \in 1..Len(parts) : ~items[i].ok THEN [ok |-> FALSE, val |-> <<>>]
       ELSE [ok |-> TRUE, val |-> [i \in 1..Len(parts) |-> items[i].val]]

(***************************************************************************)
(* The carrier.  A directory of extracted frames and a video are sequences *)
(* of slots: slot id s is element s + 1, and holds the text hidden in the  *)
(* frame, or None.  A directory without frames is the empty sequence; a    *)
(* video or image file that does not exist is NoFile.                      *)
(***************************************************************************)
NoFile == <<-2>>

TotalFrames == 50   \* number of frames of the carrier video

BlankFrames == [i \in 1..TotalFrames |-> None]

(***************************************************************************)
(* encode.py: the embedding loop of encode_string.  failAt is the pass of  *)
(* the loop in which lsb.hide fails for a reason of its own (0: in none).  *)
(* A pass also fails when FRAMES has more entries than there are fragments *)
(* (IndexError) and when the frame file of the slot does not exist.        *)
(***************************************************************************)
embed_stops(frames, chunks, dir, failAt) ==
    {i \in 1..Len(frames) :
        \/ i > Len(chunks)
        \/ frames[i] < 0 \/ frames[i] >= Len(dir)
        \/ i = failAt}

\* number of passes that ran to their end
embed_done(frames, chunks, dir, failAt) ==
    LET stops == embed_stops(frames, chunks, dir, failAt)
    IN IF stops = {} THEN Len(frames)
       ELSE (CHOOSE i \in stops : \A j \in stops : i <= j) - 1

\* the exception that ended the loop, "none" when it ran to its end
embed_error(frames, chunks, dir, failAt) ==
    LET done == embed_done(frames, chunks, dir, failAt)
    IN IF done = Len(frames) THEN "none"
       ELSE IF done + 1 > Len(chunks) THEN "IndexError"
       ELSE "embed"

\* the frames directory after the loop: a slot holds the fragment of the last
\* pass that wrote it
embed_frames(frames, chunks, dir, failAt) ==
    LET done == embed_done(frames, chunks, dir, failAt)
        writes(s) == {i \in 1..done : frames[i] = s - 1}
    IN [s \in 1..Len(dir) |->
           IF writes(s) = {} THEN dir[s]
           ELSE chunks[CHOOSE i \in writes(s) : \A j \in writes(s) : j <= i]]

(***************************************************************************)
(* decode.py: extract_frames.  opened is cap.isOpened(); the result is the *)
(* list of extracted frame indices in the order of reading, ok = FALSE     *)
(* standing for RuntimeError.                                              *)
(***************************************************************************)
\* mutant: the frames are extracted in the order of the index list
extract_frames_listed(carrier, frame_indices, opened) ==
    IF ~opened THEN [ok |-> FALSE, idxs |-> <<>>]
    ELSE LET out == IF frame_indices.scan \/ frame_indices.list = <<>>
                    THEN [k \in 1..Len(carrier) |-> k - 1]
                    ELSE SelectSeq(frame_indices.list,
                                   LAMBDA x : x >= 0 /\ x < Len(carrier))
         IN IF out = <<>> THEN [ok |-> FALSE, idxs |-> <<>>]
            ELSE [ok |-> TRUE, idxs |-> out]

extract_frames(carrier, frame_indices, opened) ==
    IF ~opened THEN [ok |-> FALSE, idxs |-> <<>>]
    ELSE LET total == Len(carrier)
             chosen == IF frame_indices.scan \/ frame_indices.list = <<>>
                       THEN 0..(total - 1)
                       ELSE {frame_indices.list[i] : i \in 1..Len(frame_indices.list)}
             out == SortedSeq(chosen \cap (0..(total - 1)))
         IN IF out = <<>> THEN [ok |-> FALSE, idxs |-> <<>>]
            ELSE [ok |-> TRUE, idxs |-> out]

\* reveal_from_image: the hidden text, None when the image holds none or
\* both lsb.reveal attempts raised
reveal_from_image(content, raises) == IF raises THEN None ELSE content

\* the frames whose reveal raises, for each way the reveals may fail
reveal_failures(idxs, how) ==
    IF how = "none" \/ idxs = <<>> THEN {}
    ELSE IF how = "first" THEN {idxs[1]}
    ELSE {idxs[k] : k \in 1..Len(idxs)}

\* reveal_chunks_from_frames after extract_frames: the texts revealed from the
\* extracted frames, in the order of extraction
revealed_msgs(carrier, idxs, failing) ==
    [k \in 1..Len(idxs) |-> reveal_from_image(carrier[idxs[k] + 1], idxs[k] \in failing)]

(***************************************************************************)
(* decode.py: derive_frames_from_still_image.  hidden is what              *)
(* reveal_from_image gave for the still image; ok = FALSE stands for       *)
(* RuntimeError.                                                           *)
(***************************************************************************)
\* the list literal_eval gave when it is a list of integers, else the list
\* parse_frames_spec gave, else the failure
derive_pick(lit, fallback) ==
    IF lit.ok THEN [ok |-> TRUE, val |-> lit.val]
    ELSE IF fallback.ok THEN [ok |-> TRUE, val |-> fallback.frames]
    ELSE [ok |-> FALSE, val |-> <<>>]

derive_from_text(recovered) ==
    derive_pick(literal_eval_int_list(recovered), parse_frames_spec(recovered))

derive_from_bytes(decrypted_bytes) ==
    IF ~decrypted_bytes.ok THEN [ok |-> FALSE, val |-> <<>>]
    ELSE derive_from_text(strip(utf8_decode_replace(decrypted_bytes.bytes)))

\* mutant: the recovered list is sorted and deduplicated
sorted_unique(r) ==
    IF r.ok THEN [ok |-> TRUE, val |-> SortedSeq({r.val[i] : i \in 1..Len(r.val)})]
    ELSE r

derive_frames_sorted(hidden) ==
    IF hidden = None \/ hidden = <<>> THEN [ok |-> FALSE, val |-> <<>>]
    ELSE sorted_unique(derive_from_bytes(decrypt_with_aes_utils_flex(hidden)))

derive_frames_from_still_image(hidden) ==
    IF hidden = None \/ hidden = <<>> THEN [ok |-> FALSE, val |-> <<>>]
    ELSE derive_from_bytes(decrypt_with_aes_utils_flex(hidden))

\* decode.py main: "if not raw_joined" ends the run before step 4
\* mutant: the test is left out
after_reveal_always(joined_text) == "joined"

after_reveal(joined_text) == IF joined_text = <<>> THEN "failed" ELSE "joined"

(***************************************************************************)
(* SpecSplit: split_string and the join applied to every string over a     *)
(* two-letter alphabet up to MaxStrLen and every count 1..MaxCount.        *)
(***************************************************************************)
SplitAlphabet == {97, 98}

IdleSplit ==
    /\ s_str = <<>>
    /\ count = 1
    /\ split_list = <<>>
    /\ joined = <<>>
    /\ spc = "idle"

IdleParse ==
    /\ spec_in = <<>>
    /\ parse_res = None
    /\ ppc = "idle"

PipeMessages == {<<>>, <<97>>, <<233, 97>>}

\* the list [a, a+1, ..., b]
Iota(a, b) == [i \in 1..(b - a + 1) |-> a + i - 1]

\* the frame numbers typed at the prompt, for n fragments: in order, not
\* contiguous and not starting at 0, first two exchanged, one short, one
\* repeated, one too many, one beyond the video, none
FrameChoices(n) ==
    { Iota(0, n - 1),
      Iota(1, n - 1) \o <<n + 1>>,
      <<1, 0>> \o Iota(2, n - 1),
      Iota(0, n - 2),
      <<0, 0>> \o Iota(2, n - 1),
      Iota(0, n),
      Iota(0, n - 2) \o <<TotalFrames>>,
      <<>> }

\* the passes of the embedding loop in which lsb.hide may fail by itself
EmbedFailPoints == {0, 2}

\* the frame specs typed at the decoder's prompt
ManualSpecs ==
    { join_ints(FRAMES, <<44>>),
      <<48, 45, 51>>,
      <<48, 45>> \o py_str_int(TotalFrames - 1),
      <<120>>,
      py_str_int(TotalFrames + 5) }

TamperSlots == {0, 45}

TamperBitsVideo == {1}

NoFrames == [scan |-> FALSE, list |-> <<>>]

first_failure(old, new) == IF old = "none" THEN new ELSE old

IdlePipe ==
    /\ e_pc = "idle"
    /\ TEXT_TO_ENCODE1 = <<>>
    /\ TEXT_TO_ENCODE = <<>>
    /\ input_string = <<>>
    /\ split_string_list = <<>>
    /\ FRAMES = <<>>
    /\ frame_choice = 0
    /\ embedded = 0
    /\ mux_ok = <<FALSE, FALSE>>
    /\ e_error = "none"
    /\ e_extfail = "none"
    /\ e_success = FALSE
    /\ tmp = <<>>
    /\ still_image = NoFile
    /\ video = NoFile
    /\ tampered = FALSE
    /\ d_pc = "idle"
    /\ choice = "none"
    /\ d_frames = NoFrames
    /\ d_chunks = <<>>
    /\ raw_joined = <<>>
    /\ plaintext = <<>>
    /\ d_result = [verified |-> FALSE, body |-> <<>>]
    /\ d_output = None
    /\ d_error = "none"
    /\ d_extfail = "none"
    /\ decrypt_log = <<>>


NoResult == [ok |-> FALSE, bytes |-> <<>>]

IdleCodec ==
    /\ message = <<>>
    /\ frag_count = 1
    /\ framed = <<>>
    /\ envelope = <<>>
    /\ fragments = <<>>
    /\ received = <<>>
    /\ rejoined = <<>>
    /\ decrypted = NoResult
    /\ deframed = [verified |-> FALSE, body |-> <<>>]
    /\ cpc = "idle"

InitSplit ==
    /\ IdleParse
    /\ IdleCodec
    /\ IdlePipe
    /\ s_str \in SeqsUpTo(SplitAlphabet, MaxStrLen)
    /\ count \in 1..MaxCount
    /\ split_list = <<>>
    /\ joined = <<>>
    /\ spc = "input"

DoSplit ==
    /\ spc = "input"
    /\ split_list' = split_string(s_str, count)
    /\ spc' = "split"
    /\ UNCHANGED <<s_str, count, joined, parseVars, codecVars, pipeVars>>

DoJoin ==
    /\ spc = "split"
    /\ joined' = join_chunks(split_list)
    /\ spc' = "joined"
    /\ UNCHANGED <<s_str, count, split_list, parseVars, codecVars, pipeVars>>

NextSplit == DoSplit \/ DoJoin

SpecSplit == InitSplit /\ [][NextSplit]_vars

\* C3: the fragments of split_string(s, n), concatenated in the returned
\* order, give exactly s, for every string s (the empty one included) and n >= 1.
C3_SplitJoinRoundTrip == spc = "joined" => joined = s_str

C3_Witness ==
    /\ spc = "joined"
    /\ Len(split_list) >= 2
    /\ Len(s_str) % count # 0
    /\ joined = s_str

\* C4 as stated: for non-empty s and 1 <= n <= len(s), split_string(s, n)
\* returns exactly n fragments.
C4_ExactlyCountFragments ==
    (spc = "split" /\ s_str # <<>> /\ count <= Len(s_str)) => Len(split_list) = count

\* C4 amended: for non-empty s and 1 <= n <= len(s), split_string(s, n) returns
\* ceil(len(s) / ceil(len(s) / n)) fragments, never more than n, and exactly n
\* when n divides len(s).
C4_FragmentCount ==
    (spc = "split" /\ s_str # <<>> /\ count <= Len(s_str)) =>
        /\ Len(split_list) = CeilDiv(Len(s_str), CeilDiv(Len(s_str), count))
        /\ Len(split_list) <= count
        /\ (Len(s_str) % count = 0 => Len(split_list) = count)

C4_Witness ==
    /\ spc = "split"
    /\ Len(s_str) = 4
    /\ count = 3
    /\ Len(split_list) = 2

(***************************************************************************)
(* SpecParse: parse_frames_spec applied to every text up to MaxSpecLen     *)
(* over the characters 1 3 , - x and the blank.                            *)
(***************************************************************************)
SpecAlphabet == {49, 51, 44, 45, 120, 32}

InitParse ==
    /\ IdleSplit
    /\ IdleCodec
    /\ IdlePipe
    /\ spec_in \in SeqsUpTo(SpecAlphabet, MaxSpecLen)
    /\ parse_res = None
    /\ ppc = "input"

DoParse ==
    /\ ppc = "input"
    /\ parse_res' = parse_frames_spec(spec_in)
    /\ ppc' = "parsed"
    /\ UNCHANGED <<spec_in, splitVars, codecVars, pipeVars>>

NextParse == DoParse

SpecParse == InitParse /\ [][NextParse]_vars

\* The grammar of the claim, stated without the parser: a token is a
\* non-negative integer literal or a range a-b of two such literals; blanks
\* around a token or an endpoint and empty tokens are not held against a spec.
IsLiteral(t) == strip(t) # <<>> /\ \A i \in 1..Len(strip(t)) : IsDigit(strip(t)[i])

IsRange(t) ==
    LET k == find(t, 45)
    IN k # 0 /\ IsLiteral(SubSeq(t, 1, k - 1)) /\ IsLiteral(SubSeq(t, k + 1, Len(t)))

LiteralValue(t) == digits_value(strip(t), 0)

TokenInts(t) ==
    IF IsLiteral(t) THEN {LiteralValue(t)}
    ELSE IF IsRange(t)
    THEN LET k == find(t, 45)
             a == LiteralValue(SubSeq(t, 1, k - 1))
             b == LiteralValue(SubSeq(t, k + 1, Len(t)))
         IN {n \in 0..(a + b) : (a <= n /\ n <= b) \/ (b <= n /\ n <= a)}
    ELSE {}

Tokens(spec) ==
    LET parts == str_split(spec, 44)
    IN {parts[i] : i \in {j \in 1..Len(parts) : strip(parts[j]) # <<>>}}

IsAscendingUnique(q) == \A i \in 1..(Len(q) - 1) : q[i] < q[i + 1]

\* C6: for a spec whose tokens are all literals or ranges the result is the
\* ascending duplicate-free list of exactly the integers the tokens name
\* (a-b with a > b naming the same integers as b-a); a spec with a
\* non-numeric token or a malformed range fails instead of returning a list.
C6_ParseFrameSpec ==
    ppc = "parsed" =>
        IF \A t \in Tokens(spec_in) : IsLiteral(t) \/ IsRange(t)
        THEN /\ parse_res.ok
             /\ IsAscendingUnique(parse_res.frames)
             /\ {parse_res.frames[i] : i \in 1..Len(parse_res.frames)}
                    = UNION {TokenInts(t) : t \in Tokens(spec_in)}
        ELSE ~parse_res.ok

\* the part of C6 about well-formed specs alone
C6_WellFormedPart ==
    (ppc = "parsed" /\ \A t \in Tokens(spec_in) : IsLiteral(t) \/ IsRange(t)) =>
        /\ parse_res.ok
        /\ IsAscendingUnique(parse_res.frames)
        /\ {parse_res.frames[i] : i \in 1..Len(parse_res.frames)}
               = UNION {TokenInts(t) : t \in Tokens(spec_in)}

(***************************************************************************)
(* SpecCodec: the message path of encode.py (main, encode_string) and of   *)
(* decode.py (main) without the carrier: checksum prefix, encryption,      *)
(* split, join, decryption, checksum verification, for every message over  *)
(* the letters a and e-acute up to MaxMsgLen and the fragment counts        *)
(* 1..MaxFragCount and SplitCount.  Between split and join one bit of one  *)
(* character of one fragment may be flipped.                               *)
(***************************************************************************)
MsgAlphabet == {97, 233}

\* the default count of split_string, the one encode_string uses
SplitCount == 100

TamperBits == {0, 1, 7}

FlipBit(c, k) == IF (c \div (2 ^ k)) % 2 = 1 THEN c - 2 ^ k ELSE c + 2 ^ k

InitCodec ==
    /\ IdleSplit
    /\ IdleParse
    /\ IdlePipe
    /\ message \in SeqsUpTo(MsgAlphabet, MaxMsgLen)
    /\ frag_count \in (1..MaxFragCount) \cup {SplitCount}
    /\ framed = <<>>
    /\ envelope = <<>>
    /\ fragments = <<>>
    /\ received = <<>>
    /\ rejoined = <<>>
    /\ decrypted = NoResult
    /\ deframed = [verified |-> FALSE, body |-> <<>>]
    /\ cpc = "input"

\* encode.py main: TEXT_TO_ENCODE = Original_Checksum + TEXT_TO_ENCODE1
CFrame ==
    /\ cpc = "input"
    /\ framed' = md5_checksum(message) \o message
    /\ cpc' = "framed"
    /\ UNCHANGED <<message, frag_count, envelope, fragments, received, rejoined,
                   decrypted, deframed, splitVars, parseVars, pipeVars>>

\* encode_string: encode("utf-8"), encrypt_AES_256
CEncrypt ==
    /\ cpc = "framed"
    /\ envelope' = encrypt_AES_256(utf8_encode(framed))
    /\ cpc' = "encrypted"
    /\ UNCHANGED <<message, frag_count, framed, fragments, received, rejoined,
                   decrypted, deframed, splitVars, parseVars, pipeVars>>

\* encode_string: split_string
CSplit ==
    /\ cpc = "encrypted"
    /\ fragments' = split_string(envelope, frag_count)
    /\ received' = fragments'
    /\ cpc' = "split"
    /\ UNCHANGED <<message, frag_count, framed, envelope, rejoined,
                   decrypted, deframed, splitVars, parseVars, pipeVars>>

\* one bit of one character of one fragment is flipped on the way
CCorrupt ==
    /\ cpc = "split"
    /\ received = fragments
    /\ \E i \in 1..Len(fragments) : \E j \in 1..Len(fragments[i]) : \E k \in TamperBits :
          received' = [received EXCEPT ![i][j] = FlipBit(@, k)]
    /\ UNCHANGED <<message, frag_count, framed, envelope, fragments, rejoined,
                   decrypted, deframed, cpc, splitVars, parseVars, pipeVars>>

\* reveal_chunks_from_frames: "".join(chunks)
CJoin ==
    /\ cpc = "split"
    /\ rejoined' = join_chunks(received)
    /\ cpc' = "joined"
    /\ UNCHANGED <<message, frag_count, framed, envelope, fragments, received,
                   decrypted, deframed, splitVars, parseVars, pipeVars>>

\* decrypt_AES_256 on the joined text
CDecrypt ==
    /\ cpc = "joined"
    /\ decrypted' = decrypt_AES_256(rejoined)
    /\ cpc' = IF decrypted'.ok THEN "decrypted" ELSE "failed"
    /\ UNCHANGED <<message, frag_count, framed, envelope, fragments, received, rejoined,
                   deframed, splitVars, parseVars, pipeVars>>

\* decode.py main: decode("utf-8", errors="replace"), verify_md5_from_payload
CDeframe ==
    /\ cpc = "decrypted"
    /\ deframed' = verify_md5_from_payload(utf8_decode_replace(decrypted.bytes))
    /\ cpc' = "deframed"
    /\ UNCHANGED <<message, frag_count, framed, envelope, fragments, received, rejoined,
                   decrypted, splitVars, parseVars, pipeVars>>

NextCodec == CFrame \/ CEncrypt \/ CSplit \/ CCorrupt \/ CJoin \/ CDecrypt \/ CDeframe

SpecCodec == InitCodec /\ [][NextCodec]_vars

C2_TamperDetected ==
    (cpc \in {"decrypted", "failed", "deframed"} /\ rejoined # envelope) => ~decrypted.ok

(***************************************************************************)
(* Spec: one run of the encoder (encode.py main) followed by one run of    *)
(* the decoder (decode.py main) on the files the encoder left.  The        *)
(* external collaborators (cv2, stegano.lsb, ffmpeg, the file system) may  *)
(* fail in each call; between the two runs one bit of the text hidden in   *)
(* one frame of the video may be flipped.                                  *)
(***************************************************************************)
Init ==
    /\ IdleSplit
    /\ IdleParse
    /\ IdleCodec
    /\ e_pc = "start"
    /\ TEXT_TO_ENCODE1 = <<>>
    /\ TEXT_TO_ENCODE = <<>>
    /\ input_string = <<>>
    /\ split_string_list = <<>>
    /\ FRAMES = <<>>
    /\ frame_choice = 0
    /\ embedded = 0
    /\ mux_ok = <<FALSE, FALSE>>
    /\ e_error = "none"
    /\ e_extfail = "none"
    /\ e_success = FALSE
    /\ tmp = <<>>
    /\ still_image = NoFile
    /\ video = NoFile
    /\ tampered = FALSE
    /\ d_pc = "start"
    /\ choice = "none"
    /\ d_frames = NoFrames
    /\ d_chunks = <<>>
    /\ raw_joined = <<>>
    /\ plaintext = <<>>
    /\ d_result = [verified |-> FALSE, body |-> <<>>]
    /\ d_output = None
    /\ d_error = "none"
    /\ d_extfail = "none"
    /\ decrypt_log = <<>>

otherVars == <<splitVars, parseVars, codecVars>>

\* main: the text is read, TEXT_TO_ENCODE = Original_Checksum + TEXT_TO_ENCODE1
EncStart ==
    /\ e_pc = "start"
    /\ \E m \in PipeMessages :
          /\ TEXT_TO_ENCODE1' = m
          /\ TEXT_TO_ENCODE' = md5_checksum(m) \o m
    /\ e_pc' = "framed"
    /\ UNCHANGED <<input_string, split_string_list, FRAMES, frame_choice, embedded,
                   mux_ok, e_error, e_extfail, e_success, carrierVars, decVars, otherVars>>

\* main: countFrames and frame_extraction.  A video that cannot be read
\* raises nothing: the loop ends at the first read and no frame is written.
EncExtract ==
    /\ e_pc = "framed"
    /\ \E readable \in BOOLEAN :
          /\ tmp' = IF readable THEN BlankFrames ELSE <<>>
          /\ e_extfail' = IF readable THEN e_extfail ELSE first_failure(e_extfail, "extract")
    /\ e_pc' = "extracted"
    /\ UNCHANGED <<TEXT_TO_ENCODE1, TEXT_TO_ENCODE, input_string, split_string_list,
                   FRAMES, frame_choice, embedded, mux_ok, e_error, e_success,
                   still_image, video, tampered, decVars, otherVars>>

\* encode_string: encode, encrypt_AES_256, split_string with the default count
EncEncrypt ==
    /\ e_pc = "extracted"
    /\ input_string' = encrypt_AES_256(utf8_encode(TEXT_TO_ENCODE))
    /\ split_string_list' = split_string(input_string', SplitCount)
    /\ e_pc' = "split"
    /\ UNCHANGED <<TEXT_TO_ENCODE1, TEXT_TO_ENCODE, FRAMES, frame_choice, embedded,
                   mux_ok, e_error, e_extfail, e_success, carrierVars, decVars, otherVars>>

\* encode_string: the two prompts, FRAMES and frame_choice
EncAskFrames ==
    /\ e_pc = "split"
    /\ FRAMES' \in FrameChoices(Len(split_string_list))
    /\ frame_choice' \in {1, 2}
    /\ e_pc' = "asked"
    /\ UNCHANGED <<TEXT_TO_ENCODE1, TEXT_TO_ENCODE, input_string, split_string_list,
                   embedded, mux_ok, e_error, e_extfail, e_success, carrierVars,
                   decVars, otherVars>>

\* encode_string: with frame_choice 1 the encrypted str(FRAMES) is hidden in
\* the still image; an exception of lsb.hide ends the run
EncStoreIndex ==
    /\ e_pc = "asked"
    /\ \/ /\ frame_choice = 1
          /\ still_image' = encrypt_AES_256(utf8_encode(py_str_list(FRAMES)))
          /\ e_pc' = "indexed"
          /\ UNCHANGED <<e_error, e_extfail>>
       \/ /\ frame_choice = 1
          /\ e_pc' = "failed"
          /\ e_error' = "embed"
          /\ e_extfail' = first_failure(e_extfail, "embed")
          /\ UNCHANGED still_image
       \/ /\ frame_choice # 1
          /\ e_pc' = "indexed"
          /\ UNCHANGED <<still_image, e_error, e_extfail>>
    /\ UNCHANGED <<TEXT_TO_ENCODE1, TEXT_TO_ENCODE, input_string, split_string_list,
                   FRAMES, frame_choice, embedded, mux_ok, e_success, tmp, video,
                   tampered, decVars, otherVars>>

\* encode_string: the loop that hides fragment i in frame FRAMES[i]
EncEmbed ==
    /\ e_pc = "indexed"
    /\ \E failAt \in EmbedFailPoints :
          LET err == embed_error(FRAMES, split_string_list, tmp, failAt)
          IN /\ tmp' = embed_frames(FRAMES, split_string_list, tmp, failAt)
             /\ embedded' = embed_done(FRAMES, split_string_list, tmp, failAt)
             /\ e_error' = err
             /\ e_extfail' = IF err = "embed" THEN first_failure(e_extfail, "embed")
                             ELSE e_extfail
             /\ e_pc' = IF err = "none" THEN "embedded" ELSE "failed"
    /\ UNCHANGED <<TEXT_TO_ENCODE1, TEXT_TO_ENCODE, input_string, split_string_list,
                   FRAMES, frame_choice, mux_ok, e_success, still_image, video,
                   tampered, decVars, otherVars>>

\* main: ffmpeg takes the audio out of the source video; the status that
\* call() returns is not looked at
EncMuxAudio ==
    /\ e_pc = "embedded"
    /\ \E rc \in {0, 1} :
          /\ mux_ok' = <<rc = 0, FALSE>>
          /\ e_extfail' = IF rc = 0 THEN e_extfail ELSE first_failure(e_extfail, "mux")
    /\ e_pc' = "audio"
    /\ UNCHANGED <<TEXT_TO_ENCODE1, TEXT_TO_ENCODE, input_string, split_string_list,
                   FRAMES, frame_choice, embedded, e_error, e_success, carrierVars,
                   decVars, otherVars>>

\* main: ffmpeg builds tmp/video.mov from the frames; without frames it fails
EncMuxFrames ==
    /\ e_pc = "audio"
    /\ \E rc \in {0, 1} :
          /\ rc = 0 => tmp # <<>>
          /\ mux_ok' = <<mux_ok[1], rc = 0>>
          /\ e_extfail' = IF rc = 0 THEN e_extfail ELSE first_failure(e_extfail, "mux")
    /\ e_pc' = "frames"
    /\ UNCHANGED <<TEXT_TO_ENCODE1, TEXT_TO_ENCODE, input_string, split_string_list,
                   FRAMES, frame_choice, embedded, e_error, e_success, carrierVars,
                   decVars, otherVars>>

\* main: ffmpeg joins tmp/video.mov and tmp/audio.mp3 into video.mov; it
\* fails when one of its two inputs was not made
EncMuxVideo ==
    /\ e_pc = "frames"
    /\ \E rc \in {0, 1} :
          /\ rc = 0 => (mux_ok[1] /\ mux_ok[2])
          /\ video' = IF rc = 0 THEN tmp ELSE video
          /\ e_extfail' = IF rc = 0 THEN e_extfail ELSE first_failure(e_extfail, "mux")
    /\ e_pc' = "muxed"
    /\ UNCHANGED <<TEXT_TO_ENCODE1, TEXT_TO_ENCODE, input_string, split_string_list,
                   FRAMES, frame_choice, embedded, mux_ok, e_error, e_success, tmp,
                   still_image, tampered, decVars, otherVars>>

\* main: the success message and clean_tmp
EncFinish ==
    /\ e_pc = "muxed"
    /\ e_success' = TRUE
    /\ tmp' = <<>>
    /\ e_pc' = "done"
    /\ UNCHANGED <<TEXT_TO_ENCODE1, TEXT_TO_ENCODE, input_string, split_string_list,
                   FRAMES, frame_choice, embedded, mux_ok, e_error, e_extfail,
                   still_image, video, tampered, decVars, otherVars>>

\* between the two runs: one bit of the first character hidden in one frame
\* of video.mov is flipped
TamperFrame ==
    /\ e_pc = "done"
    /\ d_pc = "start"
    /\ video # NoFile
    /\ ~tampered
    /\ \E s \in TamperSlots : \E k \in TamperBitsVideo :
          /\ s < Len(video)
          /\ video[s + 1] # None
          /\ video' = [video EXCEPT ![s + 1][1] = FlipBit(@, k)]
    /\ tampered' = TRUE
    /\ UNCHANGED <<encVars, tmp, still_image, decVars, otherVars>>

\* decode.py main, steps 1 and 2: the video must exist; the way to get the
\* frame indices is chosen
DecStart ==
    /\ e_pc \in {"done", "failed"}
    /\ d_pc = "start"
    /\ \/ /\ video = NoFile
          /\ d_pc' = "failed"
          /\ d_error' = "video file not found"
          /\ UNCHANGED choice
       \/ /\ video # NoFile
          /\ choice' \in {"1", "2", "3", "4"}
          /\ d_pc' = "chosen"
          /\ UNCHANGED d_error
    /\ UNCHANGED <<d_frames, d_chunks, raw_joined, plaintext, d_result, d_output,
                   d_extfail, decrypt_log, encVars, carrierVars, otherVars>>

\* choice 1: derive_frames_from_still_image
DecFromStill ==
    /\ d_pc = "chosen"
    /\ choice = "1"
    /\ \/ /\ still_image = NoFile
          /\ d_pc' = "failed"
          /\ d_error' = "still image not found"
          /\ UNCHANGED <<d_frames, d_extfail, decrypt_log>>
       \/ /\ still_image # NoFile
          /\ \E raises \in BOOLEAN :
             \E hidden \in {reveal_from_image(still_image, raises)} :
             \E r \in {derive_frames_from_still_image(hidden)} :
                   /\ d_extfail' = IF raises THEN first_failure(d_extfail, "reveal")
                                   ELSE d_extfail
                   /\ decrypt_log' = IF hidden = None \/ hidden = <<>> THEN decrypt_log
                                     ELSE Append(decrypt_log, "index")
                   /\ d_frames' = IF r.ok THEN [scan |-> FALSE, list |-> r.val]
                                  ELSE d_frames
                   /\ d_pc' = IF r.ok THEN "selected" ELSE "failed"
                   /\ d_error' = IF r.ok THEN d_error
                                 ELSE "Failed to derive frames from still image"
    /\ UNCHANGED <<choice, d_chunks, raw_joined, plaintext, d_result, d_output,
                   encVars, carrierVars, otherVars>>

\* choice 2: parse_frames_spec on the typed spec
DecManual ==
    /\ d_pc = "chosen"
    /\ choice = "2"
    /\ \E spec \in ManualSpecs :
          LET r == parse_frames_spec(strip(spec))
          IN /\ d_frames' = IF r.ok THEN [scan |-> FALSE, list |-> r.frames] ELSE d_frames
             /\ d_pc' = IF r.ok THEN "selected" ELSE "failed"
             /\ d_error' = IF r.ok THEN d_error ELSE "Invalid frame spec"
    /\ UNCHANGED <<choice, d_chunks, raw_joined, plaintext, d_result, d_output,
                   d_extfail, decrypt_log, encVars, carrierVars, otherVars>>

\* choice 3: frames = None, all frames are scanned
DecScanAll ==
    /\ d_pc = "chosen"
    /\ choice = "3"
    /\ d_frames' = [scan |-> TRUE, list |-> <<>>]
    /\ d_pc' = "selected"
    /\ UNCHANGED <<choice, d_chunks, raw_joined, plaintext, d_result, d_output, d_error,
                   d_extfail, decrypt_log, encVars, carrierVars, otherVars>>

\* any other answer
DecInvalidChoice ==
    /\ d_pc = "chosen"
    /\ choice \notin {"1", "2", "3"}
    /\ d_pc' = "failed"
    /\ d_error' = "Invalid choice"
    /\ UNCHANGED <<choice, d_frames, d_chunks, raw_joined, plaintext, d_result, d_output,
                   d_extfail, decrypt_log, encVars, carrierVars, otherVars>>

\* main, step 3: reveal_chunks_from_frames, then "if not raw_joined"
DecReveal ==
    /\ d_pc = "selected"
    /\ \E opened \in BOOLEAN : \E how \in {"none", "first", "all"} :
          LET pairs == extract_frames(video, d_frames, opened)
              failing == reveal_failures(pairs.idxs, how)
              msgs == revealed_msgs(video, pairs.idxs, failing)
          IN /\ opened \/ how = "none"
             /\ d_extfail' = IF ~opened THEN first_failure(d_extfail, "extract")
                             ELSE IF failing # {} THEN first_failure(d_extfail, "reveal")
                             ELSE d_extfail
             /\ d_chunks' = <<Len(keep_chunks(msgs))>>
             /\ IF ~pairs.ok
                THEN /\ d_pc' = "failed"
                     /\ d_error' = "Failed to reveal data from frames"
                     /\ UNCHANGED raw_joined
                ELSE /\ raw_joined' = join_chunks(msgs)
                     /\ d_pc' = after_reveal(raw_joined')
                     /\ d_error' = IF d_pc' = "failed"
                                   THEN "No hidden data found in the selected frames"
                                   ELSE d_error
    /\ UNCHANGED <<choice, d_frames, plaintext, d_result, d_output, decrypt_log,
                   encVars, carrierVars, otherVars>>

\* main, step 4: _decrypt_with_aes_utils_flex and decode("utf-8", "replace")
DecDecrypt ==
    /\ d_pc = "joined"
    /\ LET r == decrypt_with_aes_utils_flex(raw_joined)
       IN /\ plaintext' = IF r.ok THEN utf8_decode_replace(r.bytes) ELSE plaintext
          /\ d_pc' = IF r.ok THEN "decrypted" ELSE "failed"
          /\ d_error' = IF r.ok THEN d_error ELSE "Decryption failed"
    /\ decrypt_log' = Append(decrypt_log, "payload")
    /\ UNCHANGED <<choice, d_frames, d_chunks, raw_joined, d_result, d_output,
                   d_extfail, encVars, carrierVars, otherVars>>

\* main, steps 5 and 6: verify_md5_from_payload, the body is printed
DecVerify ==
    /\ d_pc = "decrypted"
    /\ d_result' = verify_md5_from_payload(plaintext)
    /\ d_output' = d_result'.body
    /\ d_pc' = "printed"
    /\ UNCHANGED <<choice, d_frames, d_chunks, raw_joined, plaintext, d_error,
                   d_extfail, decrypt_log, encVars, carrierVars, otherVars>>

\* main: the save prompt; a failure to write the file is printed and the run ends
DecSave ==
    /\ d_pc = "printed"
    /\ d_pc' = "done"
    /\ UNCHANGED <<choice, d_frames, d_chunks, raw_joined, plaintext, d_result, d_output,
                   d_error, d_extfail, decrypt_log, encVars, carrierVars, otherVars>>

Next ==
    \/ EncStart \/ EncExtract \/ EncEncrypt \/ EncAskFrames \/ EncStoreIndex
    \/ EncEmbed \/ EncMuxAudio \/ EncMuxFrames \/ EncMuxVideo \/ EncFinish
    \/ TamperFrame
    \/ DecStart \/ DecFromStill \/ DecManual \/ DecScanAll \/ DecInvalidChoice
    \/ DecReveal \/ DecDecrypt \/ DecVerify \/ DecSave

Spec == Init /\ [][Next]_vars

\* the values of a sequence
Range(q) == {q[i] : i \in 1..Len(q)}

IsDistinct(q) == \A i, j \in 1..Len(q) : i # j => q[i] # q[j]

\* the encoder ran to its end with every external call succeeding, and hid
\* one fragment in each slot of FRAMES
EncodedAll ==
    /\ e_pc = "done"
    /\ e_extfail = "none"
    /\ embedded = Len(FRAMES)
    /\ Len(FRAMES) = Len(split_string_list)

\* the decoder's reveal step has run
Revealed == d_chunks # <<>>

Derived ==
    /\ choice = "1"
    /\ d_pc \notin {"start", "chosen"}
    /\ d_error \notin {"still image not found", "Failed to derive frames from still image"}

Verified == d_pc \in {"printed", "done"}

Remainder(payload) == SubSeq(payload, DigestLen + 1, Len(payload))

Mismatch(payload) ==
    /\ Len(payload) >= DigestLen
    /\ SubSeq(payload, 1, DigestLen) # md5_checksum(Remainder(payload))

NothingRevealed == d_chunks = <<0>>

C10_ExternalFailureAborts ==
    /\ e_extfail # "none" => (e_pc = "failed" /\ e_error = e_extfail /\ ~e_success)
    /\ d_extfail # "none" => d_pc = "failed"

====
